---- MODULE Spec2Model ----
(***************************************************************************)
(* The PTT signalling server of ptt-box/stream_server.py as a state        *)
(* machine: PTTManager (floor arbiter + registry), StreamServer's          *)
(* handle_websocket coroutine per client, the three broadcasts and the     *)
(* 1 Hz ptt_timeout_checker task.                                          *)
(*                                                                         *)
(* Scheduling is asyncio's: one atomic step runs a task from the point it  *)
(* is resumed to its next suspension.  A send to a websocket whose         *)
(* transport is closing raises at once (no suspension); a send that is     *)
(* written out is a point where the task may be suspended.                 *)
(***************************************************************************)
EXTENDS Integers, Sequences, FiniteSets, TLC

\* ---- bounds of the model
NClients == 2
MaxTime == 4
MaxOffers == 2
NMonitors == 1

\* handler tasks and id values of the model of the id draw
NHandlers == 3
NIds == 2

\* lines of an SDP given to force_opus_mono
MaxLines == 3

\* size in bytes of the largest stored WAV file of the model
MaxSize == 3

\* wall-clock seconds and distinct contents of the model of the transcript saves
MaxClock == 2
NContents == 3

\* frames captured by the model's microphone track, and calls of
\* _put_nowait the event loop has not yet run
MaxFrames == 103
MaxPending == 2

\* other clients that send the transceiver a p2p_offer, and frames written
\* to the transceiver's channel that it has not yet read
NVtPeers == 2
MaxInbox == 3

\* ICE candidates one peer sends the transceiver
MaxCands == 4

\* P2P connections the transceiver creates to one peer
MaxConns == 2

\* blocks held in recording_data, and waiting timers that save_timer no
\* longer refers to
MaxBlocks == 5
MaxTimers == 1

\* ---- program constants
\* PTT_TIMEOUT is read from the environment (default 30.0); the model runs
\* the configuration PTT_TIMEOUT=1.
PTT_TIMEOUT == 1

\* asyncio.Queue(maxsize=100) of a track; int(SAMPLE_RATE * FRAME_DURATION)
\* with the default 48000 Hz and 20 ms
QUEUE_MAXSIZE == 100
SAMPLES_PER_FRAME == 960

\* vox_ptt_record: consecutive loud blocks that switch PTT on
HOLD_COUNT == 3

Clients == 1 .. NClients
CHK == 0                      \* the ptt_timeout_checker task
Tasks == Clients \cup {CHK}
\* the monitor sessions; their ids ("mon-...") are no client ids
Monitors == (NClients + 1) .. (NClients + NMonitors)
None == -1

VARIABLES
    entries,             \* PTTManager.clients: the dict's entry array (insertion order, deleted keys stay as holes)
    clients,             \* PTTManager.clients: the live keys
    current_speaker,     \* PTTManager.current_speaker
    speaker_start_time,  \* PTTManager.speaker_start_time
    now,                 \* time.time(), in seconds from an origin that is moved while the floor is idle
    wake,                \* end of the checker's asyncio.sleep(1.0); 0 while it is not asleep
    conn,                \* per client: server-side state of the websocket transport
    pc,                  \* per task: where its coroutine is suspended
    bc,                  \* per task: the broadcast loop it is suspended in
    last,                \* the last step: who ran, on what input, what was written to whom
    revoked,             \* history: the clients whose last grant was ended by check_timeout
    peer,                \* per client: its RTCPeerConnection
    rx,                  \* the routed envelope the last step took from a control channel
    mon,                 \* per monitor: its handler, channel, state_task and peer connection
    uid,                 \* sessions whose client ids are drawn at random: ids, registry, floor
    sdp,                 \* vt_client: the SDP given to force_opus_mono and what it returned
    audio,               \* GET /api/audio: the stored file's size, the Range header, the response
    srt,                 \* POST /api/srt/save: one transcript, its history/ backups, the wall clock
    trk,                 \* one MicrophoneAudioTrack: captured frames, the loop's pending puts, its queue, its pts
    vt,                  \* vt_client: one transceiver's control channel, the loop reading it, the offers relayed and answered
    ice,                 \* vt_client: the P2P connection to one peer and the ICE candidates it has sent
    cls,                 \* vt_client: the P2P connections to one peer and the calls of _close_p2p_connection
    vox                  \* vox_ptt_record: the recorder's globals, its save timer and a save in progress

\* the state of the signalling model, and the state of the components that
\* are modelled on their own
main == <<entries, clients, current_speaker, speaker_start_time, now, wake, conn, pc, bc, last, revoked, peer, rx, mon>>
side == <<uid, sdp, audio, srt, trk, vt, ice, cls, vox>>

vars == <<entries, clients, current_speaker, speaker_start_time, now, wake, conn, pc, bc, last, revoked, peer, rx, mon, uid, sdp, audio, srt, trk, vt, ice, cls, vox>>

\* ---- messages -----------------------------------------------------------

NoMsg == [type |-> "none"]

\* no routed envelope
NoFrame == [type |-> "none"]

\* ClientConnection.display_name = f"Client-{client_id[:4]}"
display_name(c) == <<"Client", c>>

\* PTTManager.get_speaker_name
get_speaker_name(spk) ==
    IF spk = None THEN None
    ELSE IF spk \in clients THEN display_name(spk) ELSE spk

\* the ptt_status dict built by broadcast_ptt_status and by the handshake
PttStatus(spk) ==
    [type |-> "ptt_status",
     state |-> IF spk # None THEN "transmitting" ELSE "idle",
     speaker |-> spk,
     speakerName |-> get_speaker_name(spk)]

ClientJoined(c) == [type |-> "client_joined", clientId |-> c, displayName |-> display_name(c)]
ClientLeft(c) == [type |-> "client_left", clientId |-> c]
ClientList(c) == [type |-> "client_list", clients |-> clients \ {c}]
Config(c) == [type |-> "config", clientId |-> c]
PttGranted == [type |-> "ptt_granted"]

\* a ptt_denied that does not report the owner
PttDenied_blank(spk) == [type |-> "ptt_denied", speaker |-> None, speakerName |-> None]

\* the ptt_denied dict of the ptt_request branch
PttDenied(spk) == [type |-> "ptt_denied", speaker |-> spk, speakerName |-> get_speaker_name(spk)]

\* the answer dict of the offer branch (the SDP is not modelled)
Answer == [type |-> "answer"]

\* the body field the relay branch of a kind reads: data["sdp"] or
\* data.get("candidate")
BodyField(kind) == IF kind = "p2p_ice_candidate" THEN "candidate" ELSE "sdp"

\* a relayed dict whose from is left empty
Relayed_anon(kind, from, body) ==
    [type |-> kind, from |-> None,
     fields |-> {<<BodyField(kind), IF BodyField(kind) \in body THEN "same" ELSE "null">>}]

\* the dict built by the p2p_offer / p2p_answer / p2p_ice_candidate branches
\* from a received envelope whose body fields are `body`: type, from (the
\* sender's client_id) and the one field the branch reads, whose value is
\* the received object itself ("same") or, for an absent candidate, null
Relayed(kind, from, body) ==
    [type |-> kind, from |-> from,
     fields |-> {<<BodyField(kind), IF BodyField(kind) \in body THEN "same" ELSE "null">>}]

\* ---- /ws/monitor sessions ------------------------------------------------

\* a monitor that has not connected: its handler, its channel, its
\* state_task, whether it is in StreamServer.monitors, and the
\* iceGatheringState and senders of its peer connection
NewMon == [pc |-> "new", conn |-> "open", task |-> "none", reg |-> FALSE, ice |-> "new", senders |-> 0]

\* ---- the session's RTCPeerConnection ------------------------------------

\* RTCPeerConnection(configuration=config): nothing negotiated, no sender.
\* Kept with it as history of the session: the number of answer and of
\* client_list messages written to the session's channel, and the ids those
\* client_list messages have named.
NewPeer == [state |-> "open", ice |-> "new", senders |-> 0, answers |-> 0, lists |-> 0, listed |-> {}]

\* after pc.close(); what a closed peer connection had is not looked at again
ClosedPeer == [state |-> "closed", ice |-> "new", senders |-> 0, answers |-> 0, lists |-> 0, listed |-> {}]

\* whether setRemoteDescription can succeed; the clients of the model send at
\* most MaxOffers offers that a peer connection accepts
Accepts(p) == p.state = "open" /\ p.senders < MaxOffers

\* setRemoteDescription, addTrack(mic_track), createAnswer,
\* setLocalDescription: one more sender; gathering starts if it never did
Negotiated(p) ==
    [p EXCEPT !.senders = @ + 1, !.ice = IF @ = "new" THEN "gathering" ELSE @]

\* ---- iteration over PTTManager.clients.values() -------------------------

NoBc == [kind |-> "none"]

\* iter(dict.values()): position in the entry array, the dict size seen at
\* creation (di_used) and the number of items still expected (len)
IterNew == [pos |-> 0, used |-> Cardinality(clients), len |-> Cardinality(clients)]

\* next(): "stop", "error" (RuntimeError: dictionary changed size / keys
\* changed during iteration) or "item" with the client found
IterNext(it) ==
    IF it.used # Cardinality(clients) THEN [res |-> "error"]
    ELSE LET live == {i \in (it.pos + 1) .. Len(entries) : entries[i] \in clients}
         IN  IF live = {} THEN [res |-> "stop"]
             ELSE IF it.len = 0 THEN [res |-> "error"]
             ELSE LET i == CHOOSE j \in live : \A k \in live : j <= k
                  IN  [res |-> "item", client |-> entries[i],
                       it |-> [pos |-> i, used |-> it.used, len |-> it.len - 1]]

\* websocket.send_json(to): written out iff the transport is not closing,
\* otherwise it raises
SendOk(to) == conn[to] = "open"

\* a broadcast loop whose try/except encloses the for statement: the first
\* failed send ends the broadcast
RECURSIVE BcastLoop_abort(_, _)
BcastLoop_abort(it, skip) ==
    LET n == IterNext(it)
    IN  IF n.res # "item" THEN n
        ELSE IF n.client = skip THEN BcastLoop_abort(n.it, skip)
        ELSE IF ~SendOk(n.client) THEN [res |-> "stop"]
        ELSE [res |-> "send", client |-> n.client, it |-> n.it]

\* The body of the three broadcast loops, from a resumption to the next send
\* that is written out: clients equal to `skip` are passed over, a send that
\* raises is swallowed by `except Exception: pass`.
RECURSIVE BcastLoop(_, _)
BcastLoop(it, skip) ==
    LET n == IterNext(it)
    IN  IF n.res # "item" THEN n
        ELSE IF n.client = skip \/ ~SendOk(n.client) THEN BcastLoop(n.it, skip)
        ELSE [res |-> "send", client |-> n.client, it |-> n.it]

\* ---- one step of a task: its outcome ------------------------------------
\* What a task has done when it reaches its next suspension: where it is
\* suspended (pc, bc), the one message it wrote out (to, msg; NoMsg if none),
\* the floor it leaves (spk, st), and whether it popped itself from the
\* registry.

Out(p, b, to, m, spk, st, pop) ==
    [pc |-> p, bc |-> b, to |-> to, msg |-> m, spk |-> spk, st |-> st, pop |-> pop]

\* the tasks suspended inside a broadcast loop
Broadcasting == {u \in Tasks : bc[u].kind = "bcast"}

RECURSIVE BcastRun(_, _, _, _, _, _, _, _, _, _)
RECURSIVE Finally(_, _, _)

\* StreamServer.send_client_list(client_id), called after broadcast_client_joined
send_client_list(t, spk, st) ==
    IF t \notin clients THEN Out("loop", NoBc, None, NoMsg, spk, st, FALSE)
    ELSE IF SendOk(t) THEN Out("loop", NoBc, t, ClientList(t), spk, st, FALSE)
    ELSE Finally(t, spk, st)

\* StreamServer.broadcast_client_left(client_id), then the registry pop
broadcast_client_left(t, spk, st) ==
    BcastRun(t, "fin_left", IterNew, ClientLeft(t), t, {}, Broadcasting \ {t}, clients, spk, st)

\* a broadcast loop ran to StopIteration: what the caller does next
BcastDone(t, ctx, spk, st) ==
    CASE ctx \in {"grant", "release"} -> Out("loop", NoBc, None, NoMsg, spk, st, FALSE)
      [] ctx = "joined" -> send_client_list(t, spk, st)
      [] ctx = "fin_status" -> broadcast_client_left(t, spk, st)
      [] ctx = "fin_left" -> Out("closed", NoBc, None, NoMsg, spk, st, TRUE)
      [] ctx = "timeout" -> Out("sleep", NoBc, None, NoMsg, spk, st, FALSE)

\* a broadcast loop raised RuntimeError out of its `for`: inside the
\* handler's try it is caught and the finally block runs; inside the finally
\* block it leaves the handler; in ptt_timeout_checker it ends the task
BcastRaised(t, ctx, spk, st) ==
    CASE ctx \in {"grant", "release", "joined"} -> Finally(t, spk, st)
      [] ctx = "fin_status" -> Out("crashed_status", NoBc, None, NoMsg, spk, st, FALSE)
      [] ctx = "fin_left" -> Out("crashed_left", NoBc, None, NoMsg, spk, st, FALSE)
      [] ctx = "timeout" -> Out("dead", NoBc, None, NoMsg, spk, st, FALSE)

\* broadcast_ptt_status / broadcast_client_joined / broadcast_client_left:
\* the `for` loop from iterator state `it` on.  History kept with the loop:
\* got (the clients it has written to), older (the tasks whose broadcast was
\* in progress when it started), reg (the registry when it started).
BcastRun(t, ctx, it, m, skip, got, older, reg, spk, st) ==
    LET r == BcastLoop(it, skip)
    IN  CASE r.res = "send" ->
               Out("bcast",
                   [kind |-> "bcast", ctx |-> ctx, it |-> r.it, msg |-> m, skip |-> skip,
                    got |-> got \cup {r.client}, older |-> older, reg |-> reg],
                   r.client, m, spk, st, FALSE)
          [] r.res = "stop" -> BcastDone(t, ctx, spk, st)
          [] r.res = "error" -> BcastRaised(t, ctx, spk, st)

\* StreamServer.broadcast_ptt_status, from its first line
broadcast_ptt_status(t, ctx, spk, st) ==
    BcastRun(t, ctx, IterNew, PttStatus(spk), None, {}, Broadcasting \ {t}, clients, spk, st)

\* StreamServer.broadcast_client_joined, from its first line
broadcast_client_joined(t, spk, st) ==
    IF t \notin clients THEN send_client_list(t, spk, st)
    ELSE BcastRun(t, "joined", IterNew, ClientJoined(t), t, {}, Broadcasting \ {t}, clients, spk, st)

\* release_floor without its test of the caller
release_floor_any(c, spk) == spk # None

\* PTTManager.release_floor
release_floor(c, spk) == spk = c

\* handle_websocket's finally block, entered with the floor (spk, st)
Finally(t, spk, st) ==
    IF release_floor(t, spk)
    THEN broadcast_ptt_status(t, "fin_status", None, None)
    ELSE broadcast_client_left(t, spk, st)

\* The step of task t with outcome o on input ev.  The server reads the
\* clock only as time.time() - speaker_start_time, so while the floor is idle
\* the clock's origin is moved to keep `now` at 1 (wake moves with it).
Apply(t, ev, o) ==
    /\ pc' = [pc EXCEPT ![t] = o.pc]
    /\ bc' = [u \in Tasks |->
                IF u = t THEN o.bc
                ELSE IF bc[u].kind = "bcast" /\ (o.bc.kind # "bcast" \/ o.bc.got \subseteq {o.to})
                     THEN [bc[u] EXCEPT !.older = @ \ {t}]
                     ELSE bc[u]]
    /\ current_speaker' = o.spk
    /\ speaker_start_time' = o.st
    /\ clients' = IF o.pop THEN clients \ {t} ELSE clients
    /\ last' = [task |-> t, ev |-> ev, to |-> o.to, msg |-> o.msg]
    /\ now' = IF o.spk = None THEN 1 ELSE now
    /\ wake' = LET w == IF o.pc = "sleep" THEN now + 1
                        ELSE IF t = CHK THEN 0 ELSE wake
               IN  IF o.spk = None /\ w # 0 THEN w - now + 1 ELSE w
    /\ revoked' = IF t = CHK /\ current_speaker # None /\ o.spk = None
                  THEN revoked \cup {current_speaker}
                  ELSE IF ev = "ptt_request" /\ current_speaker = None THEN revoked \ {t}
                  ELSE revoked
    /\ peer' = IF t \notin Clients THEN peer
               ELSE [peer EXCEPT ![t] =
                       IF o.pop THEN ClosedPeer
                       ELSE IF ev = "offer" /\ o.pc = "negotiating" THEN Negotiated(@)
                       ELSE IF o.to = t /\ o.msg.type = "answer" THEN [@ EXCEPT !.answers = @ + 1]
                       ELSE IF o.to = t /\ o.msg.type = "client_list" THEN [@ EXCEPT !.lists = @ + 1,
                                                                                        !.listed = @ \cup o.msg.clients]
                       ELSE @]

\* `last` after a step of the environment (no task ran)
Env == [task |-> None, ev |-> "env", to |-> None, msg |-> NoMsg]

\* what a step of a handler that takes no routed envelope leaves alone
Keep == UNCHANGED <<entries, conn, mon>> /\ rx' = NoFrame /\ UNCHANGED side

\* ---- handle_websocket: the handshake ------------------------------------

\* ws.prepare() returned: the session is inserted into the registry and
\* config is sent; `up` is whether the client's transport is still open then.
\* Client ids are fresh (uuid4); the model names the k-th session to register k.
\* The handshake sends are outside the handler's try: a send that raises
\* leaves the handler there.
Connect(c, up) ==
    /\ pc[c] = "new"
    /\ c = Len(entries) + 1
    /\ entries' = Append(entries, c)
    /\ clients' = clients \cup {c}
    /\ conn' = [conn EXCEPT ![c] = IF up THEN "open" ELSE "closed"]
    /\ pc' = [pc EXCEPT ![c] = IF up THEN "hs_status" ELSE "crashed_hs"]
    /\ last' = [task |-> c, ev |-> "connect", to |-> IF up THEN c ELSE None,
                msg |-> IF up THEN Config(c) ELSE NoMsg]
    /\ UNCHANGED <<current_speaker, speaker_start_time, now, wake, bc, revoked, peer, mon>>
    /\ rx' = NoFrame
    /\ UNCHANGED side

\* the initial ptt_status, then (RTCPeerConnection built) the message loop
InitStatus(c) ==
    /\ pc[c] = "hs_status"
    /\ pc' = [pc EXCEPT ![c] = IF SendOk(c) THEN "loop" ELSE "crashed_hs"]
    /\ last' = [task |-> c, ev |-> "init_status", to |-> IF SendOk(c) THEN c ELSE None,
                msg |-> IF SendOk(c) THEN PttStatus(current_speaker) ELSE NoMsg]
    /\ UNCHANGED <<entries, clients, current_speaker, speaker_start_time, now, wake, conn, bc, revoked, peer, mon>>
    /\ rx' = NoFrame
    /\ UNCHANGED side

\* the client's side of the control channel goes away
Disconnect(c) ==
    /\ pc[c] \notin {"new", "closed", "crashed_hs", "crashed_status", "crashed_left"}
    /\ conn[c] = "open"
    /\ conn' = [conn EXCEPT ![c] = "closed"]
    /\ last' = Env
    /\ UNCHANGED <<entries, clients, current_speaker, speaker_start_time, now, wake, pc, bc, revoked, peer, mon>>
    /\ rx' = NoFrame
    /\ UNCHANGED side

\* ---- handle_websocket: the message loop ---------------------------------

\* `async for msg in ws` ends: the channel is closed and nothing is buffered
LoopExit(c) ==
    /\ pc[c] = "loop"
    /\ conn[c] = "closed"
    /\ Apply(c, "close", Finally(c, current_speaker, speaker_start_time))
    /\ Keep

\* request_floor without its test of current_speaker
request_floor_always(c, spk) == TRUE

\* PTTManager.request_floor
request_floor(c, spk) == spk = None

\* {"type": "ptt_request"}
PttRequest(c) ==
    /\ pc[c] = "loop"
    /\ Apply(c, "ptt_request",
             IF request_floor(c, current_speaker)
             THEN IF SendOk(c)
                  THEN Out("granted", NoBc, c, PttGranted, c, now, FALSE)
                  ELSE Finally(c, c, now)
             ELSE IF SendOk(c)
                  THEN Out("loop", NoBc, c, PttDenied(current_speaker),
                           current_speaker, speaker_start_time, FALSE)
                  ELSE Finally(c, current_speaker, speaker_start_time))
    /\ Keep

\* resumed after the ptt_granted send: broadcast_ptt_status
GrantBroadcast(c) ==
    /\ pc[c] = "granted"
    /\ Apply(c, "resume", broadcast_ptt_status(c, "grant", current_speaker, speaker_start_time))
    /\ Keep

\* {"type": "ptt_release"}
PttRelease(c) ==
    /\ pc[c] = "loop"
    /\ Apply(c, "ptt_release",
             IF release_floor(c, current_speaker)
             THEN broadcast_ptt_status(c, "release", None, None)
             ELSE Out("loop", NoBc, None, NoMsg, current_speaker, speaker_start_time, FALSE))
    /\ Keep

\* {"type": "offer"}: setRemoteDescription, addTrack, createAnswer,
\* setLocalDescription (which starts ICE gathering on a new peer connection);
\* `ok` is whether the peer connection accepts the offer, which a closed one
\* never does
Offer(c, ok) ==
    /\ pc[c] = "loop"
    /\ ok => Accepts(peer[c])
    /\ Apply(c, "offer",
             IF ok THEN Out("negotiating", NoBc, None, NoMsg, current_speaker, speaker_start_time, FALSE)
             ELSE Finally(c, current_speaker, speaker_start_time))
    /\ Keep

\* the peer connection's ICE gathering finishes
IceComplete(c) ==
    /\ peer[c].ice = "gathering"
    /\ peer' = [peer EXCEPT ![c].ice = "complete"]
    /\ last' = Env
    /\ rx' = NoFrame
    /\ UNCHANGED side
    /\ UNCHANGED <<entries, clients, current_speaker, speaker_start_time, now, wake, conn, pc, bc, revoked, mon>>

\* an answer sent without waiting for the gathering
ice_wait_skipped(g) == TRUE

\* `while pc.iceGatheringState != "complete": await asyncio.sleep(0.1)` is left
ice_wait_over(g) == g = "complete"

\* the wait for ICE gathering is over: the answer is sent
SendAnswer(c) ==
    /\ pc[c] = "negotiating"
    /\ ice_wait_over(peer[c].ice)
    /\ Apply(c, "resume",
             IF SendOk(c) THEN Out("answered", NoBc, c, Answer, current_speaker, speaker_start_time, FALSE)
             ELSE Finally(c, current_speaker, speaker_start_time))
    /\ Keep

\* resumed after the answer send: broadcast_client_joined, send_client_list
JoinBroadcast(c) ==
    /\ pc[c] = "answered"
    /\ Apply(c, "resume", broadcast_client_joined(c, current_speaker, speaker_start_time))
    /\ Keep

\* a text frame on which msg.json() or data["type"] raises: not JSON, not an
\* object, or an object without "type"
BadFrame(c) ==
    /\ pc[c] = "loop"
    /\ Apply(c, "bad_frame", Finally(c, current_speaker, speaker_start_time))
    /\ Keep

\* a JSON object whose "type" matches no branch
UnknownType(c) ==
    /\ pc[c] = "loop"
    /\ Apply(c, "unknown_type", Out("loop", NoBc, None, NoMsg, current_speaker, speaker_start_time, FALSE))
    /\ Keep

\* A routed envelope as received: type, to and from as the sender wrote them
\* (None: absent) and the names of its other fields.
RelayKinds == {"p2p_offer", "p2p_answer", "p2p_ice_candidate"}
Envelope(kind, to, from, fields) == [type |-> kind, to |-> to, from |-> from, fields |-> fields]

\* the p2p_offer / p2p_answer / p2p_ice_candidate branches: the target is
\* looked up in PTTManager.clients; data["sdp"] raises KeyError when the
\* field is absent, data.get("candidate") gives None
Relay(c, data) ==
    /\ pc[c] = "loop"
    /\ Apply(c, IF BodyField(data.type) \in data.fields THEN "relay" ELSE "relay_nobody",
             IF data.to \notin clients
             THEN Out("loop", NoBc, None, NoMsg, current_speaker, speaker_start_time, FALSE)
             ELSE IF data.type # "p2p_ice_candidate" /\ "sdp" \notin data.fields
             THEN Finally(c, current_speaker, speaker_start_time)
             ELSE IF SendOk(data.to)
             THEN Out("loop", NoBc, data.to, Relayed(data.type, c, data.fields),
                      current_speaker, speaker_start_time, FALSE)
             ELSE Finally(c, current_speaker, speaker_start_time))
    /\ rx' = data
    /\ UNCHANGED side
    /\ UNCHANGED <<entries, conn, mon>>

\* a task inside a broadcast loop is resumed after its send
BroadcastNext(t) ==
    /\ pc[t] = "bcast"
    /\ Apply(t, "resume",
             BcastRun(t, bc[t].ctx, bc[t].it, bc[t].msg, bc[t].skip, bc[t].got, bc[t].older, bc[t].reg,
                      current_speaker, speaker_start_time))
    /\ Keep

\* ---- ptt_timeout_checker ------------------------------------------------

\* a check_timeout that does not look at the time elapsed
check_timeout_any(spk, st, t) == spk

\* PTTManager.check_timeout: the id revoked, or None
check_timeout(spk, st, t) ==
    IF spk # None /\ st # None /\ st # 0 /\ t - st > PTT_TIMEOUT THEN spk ELSE None

\* asyncio.sleep(1.0) is over: check_timeout, and broadcast_ptt_status if it revoked
TimeoutCheck ==
    /\ pc[CHK] = "sleep"
    /\ now >= wake
    /\ Apply(CHK, "check",
             IF check_timeout(current_speaker, speaker_start_time, now) # None
             THEN broadcast_ptt_status(CHK, "timeout", None, None)
             ELSE Out("sleep", NoBc, None, NoMsg, current_speaker, speaker_start_time, FALSE))
    /\ Keep

\* One second passes.  A sleeping checker is woken when its second is over,
\* and the time its broadcast takes is not counted: the checker is modelled
\* as running at exactly 1 Hz as long as the task lives.  Seconds that pass
\* while the floor is idle change nothing (see Apply) and are left out.
Tick ==
    /\ now < MaxTime
    /\ current_speaker # None
    /\ pc[CHK] = "sleep" => now < wake
    /\ pc[CHK] # "bcast"
    /\ now' = now + 1
    /\ last' = Env
    /\ UNCHANGED <<entries, clients, current_speaker, speaker_start_time, wake, conn, pc, bc, revoked, peer, mon>>
    /\ rx' = NoFrame
    /\ UNCHANGED side

\* ---- client ids -------------------------------------------------------
\* handle_websocket draws client_id = str(uuid.uuid4())[:8] and stores the
\* session under it; it does not look whether the id is in use.  The draw is
\* modelled as a free choice from Ids, the handler tasks are Handlers.  Sends
\* and their suspensions play no part here: each handler step is atomic.
Handlers == 1 .. NHandlers
Ids == 1 .. NIds

\* no handler has started: the ids drawn, where each handler is, the dict
\* PTTManager.clients (id -> session), current_speaker, the handler whose
\* request was granted, and the last step (handler, operation, the id it
\* announced in client_left)
NoSessions ==
    [id |-> [h \in Handlers |-> None],
     ph |-> [h \in Handlers |-> "new"],
     reg |-> [i \in Ids |-> None],
     spk |-> None,
     holder |-> None,
     ev |-> [h |-> None, op |-> "none", left |-> None]]

\* lines 717-724: the id is drawn and `self.ptt_manager.clients[client_id] = client`
UidAccept(h, i) ==
    /\ uid.ph[h] = "new"
    /\ uid' = [uid EXCEPT !.id[h] = i, !.ph[h] = "live", !.reg[i] = h,
                          !.ev = [h |-> h, op |-> "accept", left |-> None]]
    /\ UNCHANGED <<main, sdp, audio, srt, trk, vt, ice, cls, vox>>

\* {"type": "ptt_request"} with the handler's client_id
UidRequest(h) ==
    /\ uid.ph[h] = "live"
    /\ uid' = IF request_floor(uid.id[h], uid.spk)
              THEN [uid EXCEPT !.spk = uid.id[h], !.holder = h,
                               !.ev = [h |-> h, op |-> "granted", left |-> None]]
              ELSE [uid EXCEPT !.ev = [h |-> h, op |-> "denied", left |-> None]]
    /\ UNCHANGED <<main, sdp, audio, srt, trk, vt, ice, cls, vox>>

\* {"type": "ptt_release"} with the handler's client_id
UidRelease(h) ==
    /\ uid.ph[h] = "live"
    /\ uid' = IF release_floor(uid.id[h], uid.spk)
              THEN [uid EXCEPT !.spk = None, !.holder = None,
                               !.ev = [h |-> h, op |-> "released", left |-> None]]
              ELSE [uid EXCEPT !.ev = [h |-> h, op |-> "release_ignored", left |-> None]]
    /\ UNCHANGED <<main, sdp, audio, srt, trk, vt, ice, cls, vox>>

\* the finally block: release_floor(client_id), broadcast_client_left(client_id),
\* clients.pop(client_id, None)
UidTeardown(h) ==
    /\ uid.ph[h] = "live"
    /\ uid' = [uid EXCEPT !.ph[h] = "closed",
                          !.spk = IF release_floor(uid.id[h], uid.spk) THEN None ELSE @,
                          !.holder = IF release_floor(uid.id[h], uid.spk) THEN None ELSE @,
                          !.reg[uid.id[h]] = None,
                          !.ev = [h |-> h, op |-> "teardown", left |-> uid.id[h]]]
    /\ UNCHANGED <<main, sdp, audio, srt, trk, vt, ice, cls, vox>>

UidNext ==
    \/ \E h \in Handlers, i \in Ids : UidAccept(h, i)
    \/ \E h \in Handlers : UidRequest(h)
    \/ \E h \in Handlers : UidRelease(h)
    \/ \E h \in Handlers : UidTeardown(h)

\* ---- vt_client.force_opus_mono ----------------------------------------
\* An SDP is a sequence of lines.  A line is an rtpmap line (payload type,
\* codec, whether it ends in CR LF or in LF alone) or an fmtp line (payload
\* type and its parameter text as a sequence of ';'-separated pieces; a
\* carriage return before the line feed is the piece "\r", because `.` in the
\* regular expressions matches it).
Rtpmap(pt, codec, cr) == [k |-> "rtpmap", pt |-> pt, codec |-> codec, cr |-> cr]
Fmtp(pt, params) == [k |-> "fmtp", pt |-> pt, params |-> params]

\* re.search(r'a=rtpmap:(\d+) opus/48000/2', sdp): the positions that match
OpusLines(s) == {i \in 1 .. Len(s) : s[i].k = "rtpmap" /\ s[i].codec = "opus/48000/2"}

\* fmtp_regex = 'a=fmtp:{payload_type} (.+)': the lines it matches
FmtpMatch(l, pt) == l.k = "fmtp" /\ l.pt = pt /\ Len(l.params) > 0

\* what is appended to, or put into, an fmtp line
StereoOff == <<"stereo=0", "sprop-stereo=0">>

\* fmtp_regex.sub(... '\1;stereo=0;sprop-stereo=0'): every matching line
\* gets the two parameters after all it had
FmtpSub(s, pt) ==
    [i \in 1 .. Len(s) |-> IF FmtpMatch(s[i], pt) THEN Fmtp(pt, s[i].params \o StereoOff) ELSE s[i]]

\* re.sub('(a=rtpmap:{pt} opus/48000/2)', '\1\r\na=fmtp:{pt} stereo=0;sprop-stereo=0'):
\* after every matching rtpmap line a new fmtp line; the rtpmap line now
\* ends in CR LF and the new line has the ending the rtpmap line had
RECURSIVE RtpmapSub(_, _)
RtpmapSub(s, pt) ==
    IF s = <<>> THEN <<>>
    ELSE IF Head(s).k = "rtpmap" /\ Head(s).pt = pt /\ Head(s).codec = "opus/48000/2"
         THEN <<Rtpmap(pt, Head(s).codec, TRUE),
                Fmtp(pt, StereoOff \o (IF Head(s).cr THEN <<"\r">> ELSE <<>>))>>
              \o RtpmapSub(Tail(s), pt)
         ELSE <<Head(s)>> \o RtpmapSub(Tail(s), pt)

\* vt_client.force_opus_mono
force_opus_mono(s) ==
    IF OpusLines(s) = {} THEN s
    ELSE LET first == CHOOSE i \in OpusLines(s) : \A j \in OpusLines(s) : i <= j
             payload_type == s[first].pt
         IN  IF \E i \in 1 .. Len(s) : FmtpMatch(s[i], payload_type)
             THEN FmtpSub(s, payload_type)
             ELSE RtpmapSub(s, payload_type)

\* the lines the SDPs of the model are made of
SdpLines ==
    {Rtpmap("111", "opus/48000/2", TRUE), Rtpmap("111", "opus/48000/2", FALSE),
     Rtpmap("0", "PCMU/8000", TRUE),
     Fmtp("111", <<"minptime=10">>), Fmtp("111", <<"minptime=10", "\r">>)}

SdpInputs == UNION {[1 .. n -> SdpLines] : n \in 0 .. MaxLines}

\* nothing given to force_opus_mono yet
NoSdp == [n |-> -1, in |-> <<>>, once |-> <<>>, out |-> <<>>]

\* an SDP is taken (create_offer: self.pc.localDescription.sdp)
SdpLoad(s) ==
    /\ sdp.n = -1
    /\ sdp' = [n |-> 0, in |-> s, once |-> s, out |-> s]
    /\ UNCHANGED <<main, uid, audio, srt, trk, vt, ice, cls, vox>>

\* force_opus_mono is applied to what the last application returned
SdpApply ==
    /\ sdp.n \in {0, 1}
    /\ sdp' = [sdp EXCEPT !.n = @ + 1,
                          !.out = force_opus_mono(sdp.out),
                          !.once = IF sdp.n = 0 THEN force_opus_mono(sdp.out) ELSE @]
    /\ UNCHANGED <<main, uid, audio, srt, trk, vt, ice, cls, vox>>

SdpNext ==
    \/ \E s \in SdpInputs : SdpLoad(s)
    \/ SdpApply

\* ---- StreamServer.handle_audio ------------------------------------------
\* The stored file of size n is the byte sequence 1, 2, .., n, so that a
\* slice tells where it was taken from.
FileBytes(n) == [i \in 1 .. n |-> i]

\* f.seek(start); f.read(length) on a file of size n: ValueError for a
\* length below -1, everything up to the end of the file for -1, at most
\* `length` bytes otherwise; nothing when start is at or past the end
ReadAt(n, start, length) ==
    IF length < -1 THEN [ok |-> FALSE, data |-> <<>>]
    ELSE LET avail == IF start >= n THEN 0 ELSE n - start
             k == IF length = -1 \/ length > avail THEN avail ELSE length
         IN  [ok |-> TRUE, data |-> [i \in 1 .. k |-> FileBytes(n)[start + i]]]

\* handle_audio for an existing file of size n and `Range: bytes=a-b`
\* (b = None: "bytes=a-"): the 206 response with its Content-Length header
\* and its body, or the 400 of `except Exception`
handle_audio(n, a, b) ==
    LET start == a
        end == IF b # None THEN b ELSE n - 1
        length == end - start + 1
        r == ReadAt(n, start, length)
    IN  IF r.ok
        THEN [status |-> 206, length |-> length, first |-> start, last |-> end, body |-> r.data]
        ELSE [status |-> 400, length |-> 0, first |-> start, last |-> end, body |-> <<>>]

\* no request yet
NoRequest == [ph |-> "idle", n |-> 0, a |-> 0, b |-> None, resp |-> [status |-> 0]]

\* GET /api/audio?file=F with a Range header arrives; F exists and has n bytes
AudioRequest(n, a, b) ==
    /\ audio.ph = "idle"
    /\ audio' = [ph |-> "requested", n |-> n, a |-> a, b |-> b, resp |-> [status |-> 0]]
    /\ UNCHANGED <<main, uid, sdp, srt, trk, vt, ice, cls, vox>>

\* the handler answers
AudioRespond ==
    /\ audio.ph = "requested"
    /\ audio' = [audio EXCEPT !.ph = "answered", !.resp = handle_audio(audio.n, audio.a, audio.b)]
    /\ UNCHANGED <<main, uid, sdp, srt, trk, vt, ice, cls, vox>>

AudioNext ==
    \/ \E n \in 0 .. MaxSize, a \in 0 .. MaxSize + 1, b \in (0 .. MaxSize + 1) \cup {None} :
          AudioRequest(n, a, b)
    \/ AudioRespond

\* ---- StreamServer.handle_srt_save ---------------------------------------
\* One transcript file.  Contents are numbers; 0 is what the transcriber
\* wrote.  datetime.now().strftime('%Y-%m-%d_%H%M%S') is the clock in whole
\* seconds, so history/ holds at most one backup per second: backups maps a
\* second to the content of `<filename>.<timestamp>`, None where no such
\* file exists.  `overwritten` is history: the contents a save has replaced.
Seconds == 0 .. MaxClock
Contents == 1 .. NContents

NoSaves == [file |-> 0, backups |-> [t \in Seconds |-> None], clock |-> 0, overwritten |-> {}]

\* shutil.copy2(srt_path, backup_path): the backup file of this second is
\* created, or replaced if it exists
copy2(backups, t, content) == [backups EXCEPT ![t] = content]

\* POST /api/srt/save with a non-empty content: backup, then write_text
SrtSave(content) ==
    /\ srt' = [srt EXCEPT !.backups = copy2(srt.backups, srt.clock, srt.file),
                          !.file = content,
                          !.overwritten = @ \cup {srt.file}]
    /\ UNCHANGED <<main, uid, sdp, audio, trk, vt, ice, cls, vox>>

\* the wall clock reaches the next second
SrtSecond ==
    /\ srt.clock < MaxClock
    /\ srt' = [srt EXCEPT !.clock = @ + 1]
    /\ UNCHANGED <<main, uid, sdp, audio, trk, vt, ice, cls, vox>>

SrtNext ==
    \/ \E content \in Contents : SrtSave(content)
    \/ SrtSecond

\* ---- MicrophoneAudioTrack ------------------------------------------------
\* One track.  The frames the sound device captures are numbered 1, 2, ...
\* in the order of capture.  _audio_callback runs on the device's thread and
\* hands each frame to the event loop (call_soon_threadsafe); `pending` is
\* the loop's calls of _put_nowait that have not run yet, `queue` is
\* self._queue, `pts` is self._pts.  History: `returned` counts the frames
\* recv has returned, `out` is the last of them, `drops` counts the frames
\* _put_nowait has discarded, `ev` is the last step.
NoTrack == [n |-> 0, pending |-> <<>>, queue |-> <<>>, pts |-> 0, returned |-> 0,
            out |-> [id |-> 0, pts |-> 0], drops |-> 0, ev |-> "none"]

\* _audio_callback: copies the frame and schedules _put_nowait; it does not
\* look at the queue and waits for nothing
TrkCallback ==
    /\ trk.n < MaxFrames
    /\ Len(trk.pending) < MaxPending
    /\ trk' = [trk EXCEPT !.n = @ + 1, !.pending = Append(@, trk.n + 1), !.ev = "callback"]
    /\ UNCHANGED <<main, uid, sdp, audio, srt, vt, ice, cls, vox>>

\* a queue that takes every frame
put_nowait_unbounded(q, f) == Append(q, f)

\* self._queue.put_nowait(data), QueueFull passed over
put_nowait(q, f) == IF Len(q) >= QUEUE_MAXSIZE THEN q ELSE Append(q, f)

\* the event loop runs the oldest scheduled _put_nowait
TrkPut ==
    /\ trk.pending # <<>>
    /\ trk' = [trk EXCEPT !.pending = Tail(@),
                          !.queue = put_nowait(@, Head(trk.pending)),
                          !.drops = IF put_nowait(trk.queue, Head(trk.pending)) = trk.queue
                                    THEN @ + 1 ELSE @,
                          !.ev = "put"]
    /\ UNCHANGED <<main, uid, sdp, audio, srt, vt, ice, cls, vox>>

\* a timestamp taken from the frame's place in the capture
frame_pts_capture(pts, id) == (id - 1) * SAMPLES_PER_FRAME

\* frame.pts = self._pts
frame_pts(pts, id) == pts

\* recv: `data = await self._queue.get()` returns the head of the queue;
\* the frame is stamped and self._pts advanced
TrkRecv ==
    /\ trk.queue # <<>>
    /\ trk' = [trk EXCEPT !.queue = Tail(@),
                          !.out = [id |-> Head(trk.queue), pts |-> frame_pts(trk.pts, Head(trk.queue))],
                          !.pts = @ + SAMPLES_PER_FRAME,
                          !.returned = @ + 1,
                          !.ev = "recv"]
    /\ UNCHANGED <<main, uid, sdp, audio, srt, vt, ice, cls, vox>>

TrkNext ==
    \/ TrkCallback
    \/ TrkPut
    \/ TrkRecv

\* ---- vt_client: the transceiver's reading of its control channel --------
\* One VirtualTransceiver and the frames the server writes to it.  `inbox`
\* is what has been written and not yet read; `sent` counts the server's
\* own frames to this session (config, initial ptt_status, answer), `ph` is
\* the loop that reads the socket (_wait_for_config, _wait_for_answer, run).
\* History: the peers whose p2p_offer the server has relayed, those a
\* p2p_answer was sent to, and the last step.  VtPeers are other clients.
VtPeers == 1 .. NVtPeers

NoVt == [ph |-> "config_wait", inbox |-> <<>>, sent |-> 0, relayed |-> {}, answered |-> {}, ev |-> "none"]

\* handle_websocket writes config, then the initial ptt_status, and the
\* answer once the transceiver's offer has arrived
VtServerSend ==
    /\ Len(vt.inbox) < MaxInbox
    /\ \/ vt.sent < 2
       \/ vt.sent = 2 /\ vt.ph \in {"answer_wait", "run"}
    /\ vt' = [vt EXCEPT !.sent = @ + 1,
                        !.inbox = Append(@, [type |-> CASE vt.sent = 0 -> "config"
                                                        [] vt.sent = 1 -> "ptt_status"
                                                        [] vt.sent = 2 -> "answer",
                                             from |-> None]),
                        !.ev = "server"]
    /\ UNCHANGED <<main, uid, sdp, audio, srt, trk, ice, cls, vox>>

\* the server relays the p2p_offer of another client: the transceiver is a
\* relay target from its registration, that is from before its config
VtRelay(x) ==
    /\ Len(vt.inbox) < MaxInbox
    /\ vt.sent >= 1
    /\ x \notin vt.relayed
    /\ vt' = [vt EXCEPT !.relayed = @ \cup {x},
                        !.inbox = Append(@, [type |-> "p2p_offer", from |-> x]),
                        !.ev = "relay"]
    /\ UNCHANGED <<main, uid, sdp, audio, srt, trk, ice, cls, vox>>

\* `async for msg in self.ws` yields the next frame to the loop that is
\* reading.  _wait_for_config breaks on config (connect then goes through
\* _setup_webrtc, which sends the offer, into _wait_for_answer);
\* _wait_for_answer breaks on answer (run is entered); both have branches
\* for ptt_status only besides.  run dispatches p2p_offer to
\* _handle_p2p_offer, which sends p2p_answer to the frame's `from`.
VtRead ==
    /\ vt.inbox # <<>>
    /\ LET m == Head(vt.inbox)
       IN  vt' = [vt EXCEPT !.inbox = Tail(@),
                            !.ph = CASE vt.ph = "config_wait" /\ m.type = "config" -> "answer_wait"
                                     [] vt.ph = "answer_wait" /\ m.type = "answer" -> "run"
                                     [] OTHER -> @,
                            !.answered = IF vt.ph = "run" /\ m.type = "p2p_offer"
                                         THEN @ \cup {m.from} ELSE @,
                            !.ev = "read"]
    /\ UNCHANGED <<main, uid, sdp, audio, srt, trk, ice, cls, vox>>

VtNext ==
    \/ VtServerSend
    \/ \E x \in VtPeers : VtRelay(x)
    \/ VtRead

\* ---- vt_client: P2P ICE candidates --------------------------------------
\* The transceiver's P2P connection to one peer X.  The handlers are awaited
\* one after the other by run, so each is one step.  `conn` is
\* p2p_connections.get(X) (`exists` is whether there is one) with the fields
\* remote_description_set and pending_candidates of P2PConnection and, as
\* history of its pc, the candidates passed to addIceCandidate in order and
\* whether the pc has a local offer.  Candidates are numbered in the order
\* of arrival (n so far); `wf` is whether the candidate string parses.
\* _create_p2p_connection: P2PConnection(client_id=remote_client_id, pc=pc)
P2PConnection(offerer) ==
    [exists |-> TRUE, remote_description_set |-> FALSE, pending_candidates |-> <<>>,
     added |-> <<>>, offerer |-> offerer]

\* no entry for X in p2p_connections
NoConn == [P2PConnection(FALSE) EXCEPT !.exists = FALSE]

NoP2P == [conn |-> NoConn, n |-> 0, ev |-> "none"]

\* p2p_connections.get(from_id), created if absent
GetOrCreate(c) == IF c.exists THEN c ELSE P2PConnection(FALSE)

\* a handler that gives every candidate to the pc at once
on_candidate_eager(c, k) == [c EXCEPT !.added = Append(@, k)]

\* _handle_p2p_ice_candidate, its last branch: addIceCandidate if the remote
\* description is set, otherwise pending_candidates.append
on_candidate(c, k) ==
    IF c.remote_description_set THEN [c EXCEPT !.added = Append(@, k)]
    ELSE [c EXCEPT !.pending_candidates = Append(@, k)]

\* setRemoteDescription, remote_description_set = True, addIceCandidate for
\* each pending candidate in list order, pending_candidates.clear()
on_description(c) ==
    [c EXCEPT !.remote_description_set = TRUE,
              !.added = @ \o c.pending_candidates,
              !.pending_candidates = <<>>]

\* {"type": "p2p_ice_candidate", "from": X}
IceCandidate(wf) ==
    /\ ice.n < MaxCands
    /\ ice' = [ice EXCEPT !.n = @ + 1,
                          !.conn = IF wf THEN on_candidate(GetOrCreate(ice.conn), ice.n + 1)
                                   ELSE GetOrCreate(ice.conn),
                          !.ev = IF wf THEN "candidate" ELSE "unparsed"]
    /\ UNCHANGED <<main, uid, sdp, audio, srt, trk, vt, cls, vox>>

\* client_list names X and X is not in p2p_connections: _initiate_p2p_offer
IceInitiate ==
    /\ ~ice.conn.exists
    /\ ice' = [ice EXCEPT !.conn = P2PConnection(TRUE), !.ev = "initiate"]
    /\ UNCHANGED <<main, uid, sdp, audio, srt, trk, vt, cls, vox>>

\* {"type": "p2p_offer", "from": X}: the peer is the offerer
IceOffer ==
    /\ ~ice.conn.exists \/ ~ice.conn.offerer
    /\ ice' = [ice EXCEPT !.conn = on_description(GetOrCreate(ice.conn)), !.ev = "offer"]
    /\ UNCHANGED <<main, uid, sdp, audio, srt, trk, vt, cls, vox>>

\* {"type": "p2p_answer", "from": X}: ignored if there is no connection
IceAnswer ==
    /\ ~ice.conn.exists \/ (ice.conn.offerer /\ ~ice.conn.remote_description_set)
    /\ ice' = [ice EXCEPT !.conn = IF ice.conn.exists THEN on_description(ice.conn) ELSE NoConn,
                          !.ev = "answer"]
    /\ UNCHANGED <<main, uid, sdp, audio, srt, trk, vt, cls, vox>>

\* client_left of X: _close_p2p_connection pops the connection
IceLeft ==
    /\ ice.conn.exists
    /\ ice' = [ice EXCEPT !.conn = NoConn, !.ev = "left"]
    /\ UNCHANGED <<main, uid, sdp, audio, srt, trk, vt, cls, vox>>

IceNext ==
    \/ \E wf \in BOOLEAN : IceCandidate(wf)
    \/ IceInitiate
    \/ IceOffer
    \/ IceAnswer
    \/ IceLeft

\* ---- vt_client: closing a P2P connection --------------------------------
\* The transceiver's connections to one peer X, numbered 1, 2, ... as they
\* are created; `cur` is the one under p2p_connections[X] (0: no entry).
\* _close_p2p_connection(X) is asked for by _handle_client_left ("left"),
\* by disconnect ("disc") and by the connectionstatechange callback of a
\* connection g, which runs as a task of its own: <<g, "failed">> when the
\* pc fails, <<g, "closed">> for the event its pc.close() emits.  For each
\* asker: where its call is and the connection it popped.  History per
\* connection: calls of receive_task.cancel() and of pc.close().
P2PConns == 1 .. MaxConns
Askers == {<<0, "left">>, <<0, "disc">>} \cup (P2PConns \X {"failed", "closed"})

NoCloses ==
    [cur |-> 0, made |-> 0,
     ph |-> [r \in Askers |-> "idle"],
     got |-> [r \in Askers |-> 0],
     cancels |-> [g \in P2PConns |-> 0],
     closes |-> [g \in P2PConns |-> 0],
     ev |-> "none"]

\* run is inside a handler it awaits (_handle_client_left), or has ended
RunBusy(k) == k.ph[<<0, "left">>] \in {"popped"} \/ k.ph[<<0, "disc">>] # "idle"

\* _create_p2p_connection(X), from _handle_p2p_offer, _handle_p2p_ice_candidate
\* or _handle_client_list when X has no entry
P2pCreate ==
    /\ cls.cur = 0
    /\ cls.made < MaxConns
    /\ ~RunBusy(cls)
    /\ cls' = [cls EXCEPT !.made = @ + 1, !.cur = cls.made + 1, !.ev = "create"]
    /\ UNCHANGED <<main, uid, sdp, audio, srt, trk, vt, ice, vox>>

\* connectionState of connection g becomes "failed": its callback is started
P2pFailed(g) ==
    /\ g <= cls.made
    /\ cls.closes[g] = 0
    /\ cls.ph[<<g, "failed">>] = "idle"
    /\ cls' = [cls EXCEPT !.ph[<<g, "failed">>] = "start", !.ev = "failed"]
    /\ UNCHANGED <<main, uid, sdp, audio, srt, trk, vt, ice, vox>>

\* self.p2p_connections.pop(remote_client_id, None): whatever is under X
pop(k, r) == k.cur

\* _close_p2p_connection up to its first await: the pop and, with a
\* connection in hand, receive_task.cancel().  client_left and disconnect
\* call it from run (r[1] = 0), a callback task when it is scheduled.
P2pPop(r) ==
    /\ \/ r[1] = 0 /\ cls.ph[r] = "idle" /\ ~RunBusy(cls)
       \/ r[1] # 0 /\ cls.ph[r] = "start"
    /\ LET g == pop(cls, r)
       IN  cls' = [cls EXCEPT !.cur = IF g # 0 THEN 0 ELSE @,
                              !.got[r] = g,
                              !.ph[r] = IF g # 0 THEN "popped" ELSE "done",
                              !.cancels = IF g # 0 THEN [@ EXCEPT ![g] = @ + 1] ELSE @,
                              !.ev = "pop"]
    /\ UNCHANGED <<main, uid, sdp, audio, srt, trk, vt, ice, vox>>

\* the rest of _close_p2p_connection: `await conn.pc.close()`, which emits
\* connectionstatechange ("closed") on that pc, and the return
P2pClose(r) ==
    /\ cls.ph[r] = "popped"
    /\ LET g == cls.got[r]
       IN  cls' = [cls EXCEPT !.closes[g] = @ + 1,
                              !.ph = [@ EXCEPT ![r] = "done",
                                               ![<<g, "closed">>] = IF @ = "idle" THEN "start" ELSE @],
                              !.ev = "close"]
    /\ UNCHANGED <<main, uid, sdp, audio, srt, trk, vt, ice, vox>>

ClsNext ==
    \/ P2pCreate
    \/ \E g \in P2PConns : P2pFailed(g)
    \/ \E r \in Askers : P2pPop(r)
    \/ \E r \in Askers : P2pClose(r)

\* ---- vox_ptt_record -----------------------------------------------------
\* The module's globals above_count, is_active, is_recording and `blocks`,
\* the length of recording_data.  The elapsed time since last_voice_time is
\* an input of the callback (`held`: it exceeds HOLD_TIME).  save_timer is
\* `ref`: "none", or the threading.Timer it refers to is "waiting" or has
\* "fired"; `orphans` are waiting timers save_timer no longer refers to.
\* save_recording runs on the timer's thread and is not atomic: `saving`
\* is set between its test of recording_data and its reset, `snap` is the
\* number of blocks it has concatenated.  `ev` is the last step.
NoVox ==
    [above_count |-> 0, is_active |-> FALSE, is_recording |-> FALSE, blocks |-> 0,
     ref |-> "none", orphans |-> 0, saving |-> FALSE, snap |-> 0, ev |-> "none"]

\* audio_callback for one block: `loud` is volume > THRESHOLD.  above_count
\* is only compared with HOLD_COUNT and is kept at most that.  PTT ON starts
\* a recording or calls cancel_save; the block is appended while recording;
\* PTT OFF calls schedule_save.
VoxCallback(loud, held) ==
    /\ loud => ~held
    /\ vox.blocks < MaxBlocks
    /\ LET count == IF loud THEN (IF vox.above_count < HOLD_COUNT THEN vox.above_count + 1 ELSE HOLD_COUNT)
                    ELSE 0
           on == count >= HOLD_COUNT /\ ~vox.is_active
           active == vox.is_active \/ on
           fresh == on /\ ~vox.is_recording
           cancel == on /\ vox.is_recording
           recording == vox.is_recording \/ on
           off == active /\ held
       IN  vox' = [vox EXCEPT !.above_count = count,
                              !.is_active = active /\ ~off,
                              !.is_recording = recording,
                              !.blocks = (IF fresh THEN 0 ELSE @) + (IF recording THEN 1 ELSE 0),
                              !.ref = IF off THEN "waiting" ELSE IF cancel THEN "none" ELSE @,
                              !.ev = IF on THEN "ptt_on" ELSE IF off THEN "ptt_off" ELSE "block"]
    /\ UNCHANGED <<main, uid, sdp, audio, srt, trk, vt, ice, cls>>

\* a Timer that was not cancelled reaches SAVE_DELAY and calls
\* save_recording: it returns at once on an empty recording_data, otherwise
\* it concatenates the blocks and writes the file
VoxTimerFire(orphan) ==
    /\ ~vox.saving
    /\ IF orphan THEN vox.orphans > 0 ELSE vox.ref = "waiting"
    /\ vox' = [vox EXCEPT !.ref = IF orphan THEN @ ELSE "fired",
                          !.orphans = IF orphan THEN @ - 1 ELSE @,
                          !.saving = vox.blocks > 0,
                          !.snap = vox.blocks,
                          !.ev = "fire"]
    /\ UNCHANGED <<main, uid, sdp, audio, srt, trk, vt, ice, cls>>

\* the end of save_recording: recording_data = [], record_start_time = None,
\* save_timer = None, is_recording = False
VoxSaveReset ==
    /\ vox.saving
    /\ vox.ref = "waiting" => vox.orphans < MaxTimers
    /\ vox' = [vox EXCEPT !.saving = FALSE,
                          !.blocks = 0,
                          !.is_recording = FALSE,
                          !.ref = "none",
                          !.orphans = IF vox.ref = "waiting" THEN @ + 1 ELSE @,
                          !.ev = "reset"]
    /\ UNCHANGED <<main, uid, sdp, audio, srt, trk, vt, ice, cls>>

VoxNext ==
    \/ \E loud, held \in BOOLEAN : VoxCallback(loud, held)
    \/ \E orphan \in BOOLEAN : VoxTimerFire(orphan)
    \/ VoxSaveReset

\* ---- the server ---------------------------------------------------------

\* StreamServer.__init__ and run(): empty registry, idle floor, checker asleep
Init ==
    /\ entries = <<>>
    /\ clients = {}
    /\ current_speaker = None
    /\ speaker_start_time = None
    /\ now = 1
    /\ wake = 2
    /\ conn = [c \in Clients |-> "open"]
    /\ pc = [t \in Tasks |-> IF t = CHK THEN "sleep" ELSE "new"]
    /\ bc = [t \in Tasks |-> NoBc]
    /\ last = Env
    /\ revoked = {}
    /\ peer = [c \in Clients |-> NewPeer]
    /\ rx = NoFrame
    /\ mon = [m \in Monitors |-> NewMon]
    /\ uid = NoSessions
    /\ sdp = NoSdp
    /\ audio = NoRequest
    /\ srt = NoSaves
    /\ trk = NoTrack
    /\ vt = NoVt
    /\ ice = NoP2P
    /\ cls = NoCloses
    /\ vox = NoVox

Next ==
    \/ \E c \in Clients, up \in BOOLEAN : Connect(c, up)
    \/ \E c \in Clients : InitStatus(c)
    \/ \E c \in Clients : Disconnect(c)
    \/ \E c \in Clients : LoopExit(c)
    \/ \E c \in Clients : PttRequest(c)
    \/ \E c \in Clients : GrantBroadcast(c)
    \/ \E c \in Clients : PttRelease(c)
    \/ \E c \in Clients, ok \in BOOLEAN : peer[c].senders = 0 /\ Offer(c, ok)
    \/ \E c \in Clients : IceComplete(c)
    \/ \E c \in Clients : SendAnswer(c)
    \/ \E c \in Clients : JoinBroadcast(c)
    \/ \E c \in Clients : BadFrame(c)
    \/ \E c \in Clients : UnknownType(c)
    \/ \E c \in Clients, to \in Clients : Relay(c, Envelope("p2p_offer", to, None, {"sdp"}))
    \/ \E t \in Tasks : BroadcastNext(t)
    \/ TimeoutCheck
    \/ Tick

Spec == Init /\ [][Next]_vars

\* ---- signalling sessions, without the clock -------------------------------

\* on_connectionstatechange with connectionState "failed" or "closed" (the
\* state leaves "new" only once negotiation has begun): pc.close() and
\* pcs.discard(pc), nothing else
PcFailed(c) ==
    /\ pc[c] \in {"loop", "negotiating", "answered", "granted", "bcast"}
    /\ peer[c].state = "open"
    /\ peer[c].ice # "new"
    /\ peer' = [peer EXCEPT ![c].state = "closed"]
    /\ last' = [task |-> c, ev |-> "pc_failed", to |-> None, msg |-> NoMsg]
    /\ rx' = NoFrame
    /\ UNCHANGED side
    /\ UNCHANGED <<entries, clients, current_speaker, speaker_start_time, now, wake, conn, pc, bc, revoked, mon>>

\* what the client c sends as from and as body fields in an envelope of a
\* kind: no body field at all, the kind's own field and one more, or the own
\* field with another client's id as from
Sent(kind, c) ==
    {<<None, {}>>, <<None, {BodyField(kind), "extra"}>>}
        \cup {<<f, {BodyField(kind)}>> : f \in Clients \ {c}}

\* The sessions' signalling with every input but the passing of time: the
\* floor is never held long enough for check_timeout.  Clients send any
\* routed envelope (from absent or another client's id) and repeat offers.
SessionNext ==
    \/ \E c \in Clients, up \in BOOLEAN : Connect(c, up)
    \/ \E c \in Clients : InitStatus(c)
    \/ \E c \in Clients : Disconnect(c)
    \/ \E c \in Clients : LoopExit(c)
    \/ \E c \in Clients : PttRequest(c)
    \/ \E c \in Clients : GrantBroadcast(c)
    \/ \E c \in Clients : PttRelease(c)
    \/ \E c \in Clients, ok \in BOOLEAN : Offer(c, ok)
    \/ \E c \in Clients : IceComplete(c)
    \/ \E c \in Clients : SendAnswer(c)
    \/ \E c \in Clients : JoinBroadcast(c)
    \/ \E c \in Clients : BadFrame(c)
    \/ \E c \in Clients : UnknownType(c)
    \/ \E c \in Clients, kind \in RelayKinds :
          \E to \in (Clients \ {c}) \cup {None}, v \in Sent(kind, c) :
              Relay(c, Envelope(kind, to, v[1], v[2]))
    \/ \E c \in Clients : BroadcastNext(c)
    \/ \E c \in Clients : PcFailed(c)

SessionSpec == Init /\ [][SessionNext]_vars

\* force_opus_mono on its own
SdpSpec == Init /\ [][SdpNext]_vars

\* handle_audio on its own
AudioSpec == Init /\ [][AudioNext]_vars

\* handle_srt_save on its own
SrtSpec == Init /\ [][SrtNext]_vars

\* the sessions with drawn ids on their own
UidSpec == Init /\ [][UidNext]_vars

\* vox_ptt_record on its own
VoxSpec == Init /\ [][VoxNext]_vars

\* the closing of P2P connections on its own
ClsSpec == Init /\ [][ClsNext]_vars

\* the P2P candidate handling on its own
IceSpec == Init /\ [][IceNext]_vars

\* the transceiver's reading loop on its own
VtSpec == Init /\ [][VtNext]_vars

\* the transceiver reads a frame that has arrived; what the server and the
\* other clients send is not forced
VtFair == VtSpec /\ WF_vars(VtRead)

\* one MicrophoneAudioTrack on its own
TrkSpec == Init /\ [][TrkNext]_vars

\* a step the event loop takes on its own once it is enabled: a handler
\* resumed after a send or a wait, or told that its channel is closed
HandlerStep(c) ==
    \/ InitStatus(c)
    \/ LoopExit(c)
    \/ GrantBroadcast(c)
    \/ SendAnswer(c)
    \/ JoinBroadcast(c)
    \/ BroadcastNext(c)

\* SessionSpec with the event loop's scheduling: a handler that can be
\* resumed is resumed; what clients and the network do is not forced
SessionFair == SessionSpec /\ \A c \in Clients : WF_vars(HandlerStep(c))

\* ---- handle_monitor_websocket ------------------------------------------

\* the config dict of the monitor handshake
MonConfig(m) == [type |-> "config", monitorId |-> m]

\* StreamServer.get_monitor_state: the registered clients, the floor and the
\* number of monitors (times and display names are not modelled)
get_monitor_state ==
    [type |-> "monitor_state", clients |-> clients, speaker |-> current_speaker,
     totalMonitors |-> Cardinality({x \in Monitors : mon[x].reg})]

\* a monitor kept in the registry of the ordinary clients
monitors_shared(m) == clients \cup {m}

\* PTTManager.clients after `self.monitors[monitor_id] = monitor`: monitors
\* have a dict of their own
monitors_insert(m) == clients

\* a step of the handler or of the state_task of monitor m: its record after
\* the step and the message it wrote to m's channel (NoMsg if none)
MonStep(m, r, ev, msg) ==
    /\ mon' = [mon EXCEPT ![m] = r]
    /\ last' = [task |-> m, ev |-> ev, to |-> IF msg.type = "none" THEN None ELSE m, msg |-> msg]
    /\ rx' = NoFrame
    /\ UNCHANGED side
    /\ UNCHANGED <<entries, current_speaker, speaker_start_time, now, wake, conn, pc, bc, revoked, peer>>

\* the monitor handler's finally block up to `await pc.close()`:
\* state_task.cancel() and monitors.pop
MonFinally(r) == [r EXCEPT !.pc = "closing", !.task = "done", !.reg = FALSE]

\* ws.prepare() returned: the monitor is put into StreamServer.monitors and
\* config is sent (outside the handler's try)
MonConnect(m, up) ==
    /\ mon[m].pc = "new"
    /\ clients' = monitors_insert(m)
    /\ MonStep(m, [mon[m] EXCEPT !.reg = TRUE,
                                 !.conn = IF up THEN "open" ELSE "closed",
                                 !.pc = IF up THEN "hs_state" ELSE "crashed_hs"],
               "connect", IF up THEN MonConfig(m) ELSE NoMsg)

\* the initial monitor_state, then create_task(send_state_periodically())
\* and the message loop
MonInitState(m) ==
    /\ mon[m].pc = "hs_state"
    /\ UNCHANGED clients
    /\ IF mon[m].conn = "open"
       THEN MonStep(m, [mon[m] EXCEPT !.pc = "loop", !.task = "sleep"], "init_state", get_monitor_state)
       ELSE MonStep(m, [mon[m] EXCEPT !.pc = "crashed_hs"], "init_state", NoMsg)

\* the monitor's side of the control channel goes away
MonDisconnect(m) ==
    /\ mon[m].pc \notin {"new", "closed", "crashed_hs"}
    /\ mon[m].conn = "open"
    /\ mon' = [mon EXCEPT ![m].conn = "closed"]
    /\ last' = Env
    /\ rx' = NoFrame
    /\ UNCHANGED side
    /\ UNCHANGED <<entries, clients, current_speaker, speaker_start_time, now, wake, conn, pc, bc, revoked, peer>>

\* send_state_periodically: asyncio.sleep(1.0) is over; a send that raises
\* ends the task (`except Exception: pass`)
MonTick(m) ==
    /\ mon[m].task = "sleep"
    /\ UNCHANGED clients
    /\ IF mon[m].conn = "open"
       THEN MonStep(m, mon[m], "state_tick", get_monitor_state)
       ELSE MonStep(m, [mon[m] EXCEPT !.task = "done"], "state_tick", NoMsg)

\* `async for msg in ws` ends
MonLoopExit(m) ==
    /\ mon[m].pc = "loop"
    /\ mon[m].conn = "closed"
    /\ UNCHANGED clients
    /\ MonStep(m, MonFinally(mon[m]), "close", NoMsg)

\* a text frame on which msg.json(), data["type"] or data["sdp"] raises
MonBadFrame(m) ==
    /\ mon[m].pc = "loop"
    /\ UNCHANGED clients
    /\ MonStep(m, MonFinally(mon[m]), "bad_frame", NoMsg)

\* {"type": "offer"} from a monitor: setRemoteDescription, addTrack,
\* createAnswer, setLocalDescription; `ok` is whether the peer connection
\* accepts the offer
MonOffer(m, ok) ==
    /\ mon[m].pc = "loop"
    /\ ok => mon[m].senders < MaxOffers
    /\ UNCHANGED clients
    /\ MonStep(m, IF ok THEN [mon[m] EXCEPT !.pc = "negotiating", !.senders = @ + 1,
                                            !.ice = IF @ = "new" THEN "gathering" ELSE @]
                  ELSE MonFinally(mon[m]),
               "offer", NoMsg)

\* the ICE gathering of the monitor's peer connection finishes
MonIceComplete(m) ==
    /\ mon[m].ice = "gathering"
    /\ mon' = [mon EXCEPT ![m].ice = "complete"]
    /\ last' = Env
    /\ rx' = NoFrame
    /\ UNCHANGED side
    /\ UNCHANGED <<entries, clients, current_speaker, speaker_start_time, now, wake, conn, pc, bc, revoked, peer>>

\* the monitor handler's wait for ICE gathering is over: the answer is sent
MonSendAnswer(m) ==
    /\ mon[m].pc = "negotiating"
    /\ ice_wait_over(mon[m].ice)
    /\ UNCHANGED clients
    /\ IF mon[m].conn = "open"
       THEN MonStep(m, [mon[m] EXCEPT !.pc = "loop"], "resume", Answer)
       ELSE MonStep(m, MonFinally(mon[m]), "resume", NoMsg)

\* pc.close() of the finally block returned and the handler returns its
\* response: the server closes the channel
MonClosed(m) ==
    /\ mon[m].pc = "closing"
    /\ UNCHANGED clients
    /\ MonStep(m, [mon[m] EXCEPT !.pc = "closed", !.conn = "closed"], "closed", NoMsg)

\* Monitors next to the ordinary sessions: every monitor input, and of the
\* clients the handshake, the floor, one negotiation each and the relay of
\* an envelope addressed to a client or to a monitor id, its from forged.
MonNext ==
    \/ \E m \in Monitors, up \in BOOLEAN : MonConnect(m, up)
    \/ \E m \in Monitors : MonInitState(m)
    \/ \E m \in Monitors : MonDisconnect(m)
    \/ \E m \in Monitors : MonTick(m)
    \/ \E m \in Monitors : MonLoopExit(m)
    \/ \E m \in Monitors : MonBadFrame(m)
    \/ \E m \in Monitors, ok \in BOOLEAN : MonOffer(m, ok)
    \/ \E m \in Monitors : MonIceComplete(m)
    \/ \E m \in Monitors : MonSendAnswer(m)
    \/ \E m \in Monitors : MonClosed(m)
    \/ \E c \in Clients, up \in BOOLEAN : Connect(c, up)
    \/ \E c \in Clients : InitStatus(c)
    \/ \E c \in Clients : Disconnect(c)
    \/ \E c \in Clients : LoopExit(c)
    \/ \E c \in Clients : PttRequest(c)
    \/ \E c \in Clients : GrantBroadcast(c)
    \/ \E c \in Clients : PttRelease(c)
    \/ \E c \in Clients : peer[c].senders = 0 /\ Offer(c, TRUE)
    \/ \E c \in Clients : IceComplete(c)
    \/ \E c \in Clients : SendAnswer(c)
    \/ \E c \in Clients : JoinBroadcast(c)
    \/ \E c \in Clients : \E to \in (Clients \ {c}) \cup Monitors :
          Relay(c, Envelope("p2p_answer", to, to, {"sdp"}))
    \/ \E c \in Clients : BroadcastNext(c)

MonSpec == Init /\ [][MonNext]_vars

\* ---- derived notions used by the properties -----------------------------

\* the handler of x has entered its finally block
InTeardown(x) ==
    \/ pc[x] \in {"closed", "crashed_status", "crashed_left"}
    \/ pc[x] = "bcast" /\ bc[x].ctx \in {"fin_status", "fin_left"}

\* broadcast_client_left(x) has been called
LeftBegun(x) ==
    \/ pc[x] \in {"closed", "crashed_left"}
    \/ pc[x] = "bcast" /\ bc[x].ctx = "fin_left"

\* the handler of x has returned or has been left by an exception
HandlerOver(x) == pc[x] \in {"closed", "crashed_hs", "crashed_status", "crashed_left"}

\* ---- C1 -----------------------------------------------------------------
\* C1: ptt_granted is sent to a client only in a step that finds the floor
\* idle and makes that client the owner, and an owner X stops being the owner
\* only by becoming idle through X's own handler (release or teardown) or the
\* timeout check; so between a ptt_granted to X and X's release, revoke or
\* disconnect nobody else is sent ptt_granted.
C1_SingleSpeaker ==
    [][ /\ last'.msg.type = "ptt_granted" =>
             /\ current_speaker = None
             /\ current_speaker' = last'.to
             /\ last'.to = last'.task
        /\ (current_speaker # None /\ current_speaker' # current_speaker) =>
             /\ current_speaker' = None
             /\ last'.task \in {current_speaker, CHK} ]_vars

\* a grant is sent while another registered client waits in its message loop
C1_Witness ==
    /\ last.msg.type = "ptt_granted"
    /\ \E z \in clients \ {last.to} : pc[z] = "loop"

\* ---- C2 -----------------------------------------------------------------
\* C2: whenever the floor is held, the grant is at most max_transmit_time + 1
\* seconds old.
C2_BoundedTransmission ==
    current_speaker # None => now - speaker_start_time <= PTT_TIMEOUT + 1

\* ---- C3 -----------------------------------------------------------------
\* C3: from the step in which X's handler leaves its message loop (channel
\* closed, or an error) X is not the owner, and no ptt_status written from
\* then on names X as speaker.
C3_ReleasedOnClose ==
    \A x \in Clients :
        InTeardown(x) =>
            /\ current_speaker # x
            /\ ~(last.msg.type = "ptt_status" /\ last.msg.speaker = x)

\* ---- C4 -----------------------------------------------------------------
\* C4: every session that was inserted into the registry and whose handler
\* is over, however it ended, has had its client_left broadcast performed.
C4_LeftExactlyOnce ==
    \A x \in Clients : HandlerOver(x) => LeftBegun(x)

\* ---- C5 -----------------------------------------------------------------
\* C5: a client_list written once broadcast_client_left(X) has begun does
\* not contain X.
C5_NoStaleMember ==
    last.msg.type = "client_list" =>
        \A x \in last.msg.clients : ~LeftBegun(x)

\* ---- C6 -----------------------------------------------------------------
\* C6: when the broadcast of task t, started before the broadcast of task u,
\* is written to a recipient, that recipient has not already been written
\* the broadcast of u.
C6_BroadcastOrder ==
    \A t \in Tasks, u \in Tasks :
        ( /\ t # u
          /\ bc[t].kind = "bcast" /\ bc[u].kind = "bcast"
          /\ t \in bc[u].older
          /\ last.task = t /\ last.to # None )
        => last.to \notin bc[u].got

\* ---- C7 -----------------------------------------------------------------
\* C7 as stated: every ptt_request processed while the floor is held is
\* answered with ptt_denied naming the owner, leaves owner and start time
\* unchanged and starts no broadcast.
C7_DeniedAlways ==
    [][ \A c \in Clients :
          (last'.task = c /\ last'.ev = "ptt_request" /\ current_speaker # None) =>
             /\ last'.to = c
             /\ last'.msg = [type |-> "ptt_denied", speaker |-> current_speaker,
                             speakerName |-> get_speaker_name(current_speaker)]
             /\ UNCHANGED <<current_speaker, speaker_start_time, bc>>
             /\ pc'[c] = "loop" ]_vars

\* C7 (amended): every ptt_request processed while the floor is held and the
\* requester's channel is open is answered with ptt_denied naming the owner
\* (not null), leaves owner and start time unchanged and starts no broadcast.
C7_Denied ==
    [][ \A c \in Clients :
          (last'.task = c /\ last'.ev = "ptt_request" /\ current_speaker # None
             /\ conn[c] = "open") =>
             /\ last'.to = c
             /\ last'.msg = [type |-> "ptt_denied", speaker |-> current_speaker,
                             speakerName |-> get_speaker_name(current_speaker)]
             /\ last'.msg.speaker # None
             /\ UNCHANGED <<current_speaker, speaker_start_time, bc>>
             /\ pc'[c] = "loop" ]_vars

\* a request was just denied in favour of another client, the owner
C7_Witness ==
    /\ last.ev = "ptt_request"
    /\ last.msg.type = "ptt_denied"
    /\ last.msg.speaker = current_speaker
    /\ current_speaker \notin {None, last.to}

\* ---- C8 -----------------------------------------------------------------
\* the first registered client, in registry order, whose channel is open
OpenMembers == {i \in 1 .. Len(entries) : entries[i] \in clients /\ conn[entries[i]] = "open"}
FirstOpen == entries[CHOOSE i \in OpenMembers : \A j \in OpenMembers : i <= j]

\* C8: ptt_release from a client that is not the owner changes neither owner
\* nor start time and writes nothing; ptt_release from the owner sets the
\* floor idle and starts one broadcast of the idle ptt_status.
C8_Release ==
    [][ \A c \in Clients :
          (last'.task = c /\ last'.ev = "ptt_release") =>
             IF current_speaker = c
             THEN /\ current_speaker' = None
                  /\ speaker_start_time' = None
                  /\ IF OpenMembers = {}
                     THEN last'.msg = NoMsg /\ pc'[c] = "loop"
                     ELSE /\ last'.to = FirstOpen
                          /\ last'.msg = [type |-> "ptt_status", state |-> "idle",
                                          speaker |-> None, speakerName |-> None]
                          /\ pc'[c] = "bcast"
                          /\ bc'[c].ctx = "release"
                          /\ bc'[c].got = {FirstOpen}
             ELSE /\ UNCHANGED <<current_speaker, speaker_start_time, bc>>
                  /\ last'.msg = NoMsg
                  /\ pc'[c] = "loop" ]_vars

\* a client revoked by the timeout sends ptt_release after another client
\* was granted the floor
C8_Witness ==
    /\ last.ev = "ptt_release"
    /\ last.task \in revoked
    /\ current_speaker \notin {None, last.task}

\* ---- C9 -----------------------------------------------------------------
\* C9: when the broadcast that follows a grant or the owner's release is
\* over, every client that was registered when it started, is still
\* registered and has an open channel has been written the status; after a
\* grant the status is transmitting with the requester as speaker, after a
\* release it is idle.
C9_StatusToAll ==
    [][ \A c \in Clients :
          ( /\ pc[c] = "bcast" /\ bc[c].ctx \in {"grant", "release"}
            /\ last'.task = c
            /\ ~(pc'[c] = "bcast" /\ bc'[c].ctx = bc[c].ctx) ) =>
             /\ \A r \in bc[c].reg \cap clients : conn[r] = "open" => r \in bc[c].got
             /\ bc[c].ctx = "grant" =>
                    bc[c].msg.state = "transmitting" /\ bc[c].msg.speaker = c
             /\ bc[c].ctx = "release" => bc[c].msg.state = "idle" ]_vars

\* ---- C10 ----------------------------------------------------------------
\* C10: after a frame that is not JSON or has no type, an unknown type, or a
\* routed envelope without its body field, the session is registered, the
\* floor is as before and the handler is back in its message loop.
C10_ProtocolErrorDropped ==
    [][ \A c \in Clients :
          (last'.task = c /\ last'.ev \in {"bad_frame", "unknown_type", "relay_nobody"}) =>
             /\ c \in clients'
             /\ current_speaker' = current_speaker
             /\ pc'[c] = "loop" ]_vars

\* ---- C11 ----------------------------------------------------------------
\* C11: when A's well-formed p2p_offer, p2p_answer or p2p_ice_candidate is
\* relayed to a registered client B whose channel has failed, A's handler is
\* back in its message loop afterwards, A is still registered and the floor
\* is as it was.
C11_RelayFailureContained ==
    [][ \A a \in Clients :
          ( /\ last'.task = a /\ last'.ev = "relay"
            /\ rx'.to \in clients \ {a}
            /\ conn[rx'.to] = "closed" ) =>
             /\ pc'[a] = "loop"
             /\ a \in clients'
             /\ current_speaker' = current_speaker ]_vars

\* ---- C12 ----------------------------------------------------------------
\* the registered clients after position p of the registry, other than skip,
\* to which a send succeeds
OpenAfter(p, skip) ==
    {i \in (p + 1) .. Len(entries) :
        entries[i] \in clients /\ entries[i] # skip /\ conn[entries[i]] = "open"}
FirstOpenAfter(p, skip) ==
    entries[CHOOSE i \in OpenAfter(p, skip) : \A j \in OpenAfter(p, skip) : i <= j]

\* the step of t goes on with the broadcast t is suspended in, the registry
\* being what it was when the broadcast began
Resumed(t) == pc[t] = "bcast" /\ last'.task = t /\ bc[t].reg = clients

\* the step of t is, or ends in, a new broadcast loop of context ctx with
\* message m that passes over skip: m is written to the first registered
\* recipient whose channel is open, and if there is none the loop is over
NewLoop(t, ctx, m, skip, over) ==
    IF OpenAfter(0, skip) # {}
    THEN /\ pc'[t] = "bcast"
         /\ bc'[t].ctx = ctx
         /\ last'.to = FirstOpenAfter(0, skip)
         /\ last'.msg = m
    ELSE over

C13_RoutedToTargetOnly ==
    [][ /\ last'.msg.type \in RelayKinds =>
              /\ last'.ev \in {"relay", "relay_nobody"}
              /\ last'.task \in Clients
              /\ rx'.to \in clients
              /\ last'.to = rx'.to
              /\ last'.msg.type = rx'.type
              /\ last'.msg.from = last'.task
        /\ (last'.ev \in {"relay", "relay_nobody"} /\ rx'.to \notin clients) =>
              /\ last'.to = None
              /\ last'.msg = NoMsg
              /\ pc'[last'.task] = "loop"
              /\ last'.task \in clients'
              /\ UNCHANGED <<clients, current_speaker, speaker_start_time, bc>> ]_vars

\* a routed envelope that named another id as its from has just been delivered
C13_Witness ==
    /\ last.ev = "relay"
    /\ last.msg.type \in RelayKinds
    /\ last.to = rx.to
    /\ rx.from # last.task

\* ---- C14 ----------------------------------------------------------------
\* C14: the copy of a routed message that the recipient gets has the type of
\* the envelope the sender sent and exactly its body fields, each with the
\* value the sender gave it: none dropped, none added, none altered.
C14_RelayFidelity ==
    [][ last'.msg.type \in RelayKinds =>
          /\ last'.msg.type = rx'.type
          /\ last'.msg.fields = {<<f, "same">> : f \in rx'.fields} ]_vars

\* ---- C15 ----------------------------------------------------------------
\* the session ids a message carries (a speakerName is the display name of
\* the speaker or the speaker's id again)
MsgIds(m) ==
    CASE m.type \in {"ptt_status", "ptt_denied"} -> {m.speaker} \ {None}
      [] m.type \in {"client_joined", "client_left", "config"} -> {m.clientId}
      [] m.type = "client_list" -> m.clients
      [] m.type \in RelayKinds -> {m.from}
      [] OTHER -> {}

\* C15: no message written to an ordinary client carries a monitor id; a
\* step of a monitor's handler or state_task (its connecting, its
\* disconnecting, anything between) writes nothing to an ordinary client,
\* starts no broadcast and changes neither the registry of the ordinary
\* clients nor the floor; and the floor owner is never a monitor id.
C15_MonitorsInvisible ==
    [][ /\ last'.to \in Clients => MsgIds(last'.msg) \cap Monitors = {}
        /\ last'.task \in Monitors =>
              /\ last'.to \notin Clients
              /\ UNCHANGED <<clients, entries, current_speaker, pc, bc>>
        /\ current_speaker' \notin Monitors ]_vars

\* a client_list naming another client has just been sent while a monitor
\* is connected and in its message loop
C15_Witness ==
    /\ last.msg.type = "client_list"
    /\ last.to \in Clients
    /\ last.msg.clients # {}
    /\ \E m \in Monitors : mon[m].reg /\ mon[m].pc = "loop"

\* ---- C16 ----------------------------------------------------------------
\* C16: the first message written to a monitor is config and the second is
\* monitor_state; from then on, as long as the monitor's channel is open,
\* its state_task is alive and every expiry of its 1 s sleep writes a
\* monitor_state to it, also while its handler waits in a negotiation; and
\* nothing is written to a monitor whose channel is closed.
C16_MonitorFeed ==
    [][ \A m \in Monitors :
          /\ (last'.to = m /\ mon[m].pc = "new") => last'.msg.type = "config"
          /\ (last'.to = m /\ mon[m].pc = "hs_state") => last'.msg.type = "monitor_state"
          /\ last'.to = m => mon[m].conn = "open"
          /\ (last'.task = m /\ last'.ev = "state_tick" /\ mon[m].conn = "open") =>
                last'.to = m /\ last'.msg.type = "monitor_state"
          /\ (mon'[m].conn = "open" /\ mon'[m].pc \notin {"new", "hs_state"}) =>
                mon'[m].task = "sleep" ]_vars

\* ---- C17 ----------------------------------------------------------------
\* C17: a session is sent at most one config, at most one answer and at
\* most one client_list, however many offers its client sends: config is
\* written only to a session that has just been accepted, and an answer or
\* a client_list only to a session that has had none before.
C17_AtMostOnce ==
    [][ \A c \in Clients : last'.to = c =>
          /\ last'.msg.type = "config" => pc[c] = "new"
          /\ last'.msg.type = "answer" => peer[c].answers = 0
          /\ last'.msg.type = "client_list" => peer[c].lists = 0 ]_vars

\* ---- C18 ----------------------------------------------------------------
\* C18: the first message written to an ordinary session is the config with
\* its own client id and the second is a ptt_status; no broadcast and no
\* relayed message is written to it before its config, and between its
\* config and the initial ptt_status of its handler nothing but a
\* ptt_status is written to it (no membership message, no relayed one).
C18_HandshakeFirst ==
    [][ \A c \in Clients : last'.to = c =>
          /\ pc[c] = "new" => last'.msg = Config(c)
          /\ pc[c] = "hs_status" => last'.msg.type = "ptt_status" ]_vars

\* ---- C19 ----------------------------------------------------------------
\* C19: once the peer connection of a registered session has reached failed
\* or closed, the session is torn down whether or not its control channel
\* is open: it is removed from the registry (having released the floor and
\* broadcast client_left on its way).
C19_FailedPeerTornDown ==
    \A c \in Clients : (peer[c].state = "closed" /\ c \in clients) ~> (c \notin clients)

\* ---- C20 ----------------------------------------------------------------
\* C20: an answer is written to a control channel, of an ordinary session
\* or of a monitor, only when the iceGatheringState of that session's peer
\* connection is "complete".
C20_AnswerAfterGathering ==
    [][ last'.msg.type = "answer" =>
          /\ last'.to \in Clients \cup Monitors
          /\ last'.to \in Clients => peer[last'.to].ice = "complete"
          /\ last'.to \in Monitors => mon[last'.to].ice = "complete" ]_vars

\* an answer has just been sent to a monitor, and an ordinary session has
\* had its answer too
C20_Witness ==
    /\ last.msg.type = "answer"
    /\ last.to \in Monitors
    /\ \E c \in Clients : peer[c].answers = 1

\* ---- C21 ----------------------------------------------------------------
\* C21: a handler that has accepted an offer does not stay in its wait for
\* ICE gathering: whether or not gathering completes, it leaves the wait
\* (sends the answer, or ends the session) and takes the session's later
\* messages and the close of its channel.
C21_GatheringWaitBounded ==
    \A c \in Clients : (pc[c] = "negotiating") ~> (pc[c] # "negotiating")

\* ---- C22 ----------------------------------------------------------------
\* the handlers that have been accepted and have not torn down
Live(u) == {h \in Handlers : u.ph[h] = "live"}

\* C22: no two live sessions have the same client id; the registry insert
\* of a new session finds no entry under its id; and the teardown of one
\* session leaves every other live session its registry entry and its
\* floor, and announces client_left with the id of no other live session.
C22_UniqueIds ==
    [][ /\ \A g, h \in Live(uid') : g # h => uid'.id[g] # uid'.id[h]
        /\ uid'.ev.op = "accept" => uid.reg[uid'.id[uid'.ev.h]] = None
        /\ uid'.ev.op = "teardown" =>
              \A g \in Live(uid') :
                 /\ uid.reg[uid.id[g]] = g => uid'.reg[uid.id[g]] = g
                 /\ uid.holder = g => uid'.spk = uid.spk
                 /\ uid'.ev.left # uid.id[g] ]_vars

\* ---- C23 ----------------------------------------------------------------
\* C23: force_opus_mono applied twice gives what one application gives,
\* for every SDP: with an fmtp line for the Opus payload type, and without.
C23_MonoIdempotent ==
    sdp.n = 2 => sdp.out = sdp.once

\* ---- C24 ----------------------------------------------------------------
\* C24: for a stored file of n bytes and Range: bytes=a-b (b omitted
\* meaning n-1), a 206 response has Content-Length = b-a+1 = the number of
\* body bytes, and its body is bytes a..b of the file.
C24_RangeExact ==
    (audio.ph = "answered" /\ audio.resp.status = 206) =>
        LET b == IF audio.b # None THEN audio.b ELSE audio.n - 1
        IN  /\ audio.resp.length = Len(audio.resp.body)
            /\ audio.resp.length = b - audio.a + 1
            /\ audio.resp.body = [i \in 1 .. (b - audio.a + 1) |-> audio.a + i]

\* ---- C25 ----------------------------------------------------------------
\* C25: every content of the transcript that a save has overwritten is the
\* content of some file in history/, whatever the times of the saves.
C25_BackupsKept ==
    \A c \in srt.overwritten : \E t \in Seconds : srt.backups[t] = c

\* ---- C26 ----------------------------------------------------------------
\* the sessions a suspended broadcast of t still has to write to: registered
\* when it started, still registered, channel open, not yet written
Owed(t) ==
    {x \in bc[t].reg \cap clients : x # bc[t].skip /\ conn[x] = "open" /\ x \notin bc[t].got}

\* C26: a broadcast that is resumed after the registry has changed goes on
\* over the membership it started with: while a session registered at its
\* start, still registered and connected, has not been written, the next
\* write is the same message to such a session; and when none is left the
\* broadcasting task goes on: the checker does not die, a teardown is not
\* left by an exception, a handler is not thrown out of its message loop.
C26_SnapshotBroadcast ==
    [][ \A t \in Tasks :
          (pc[t] = "bcast" /\ last'.task = t /\ bc[t].reg # clients) =>
             IF Owed(t) # {}
             THEN /\ pc'[t] = "bcast"
                  /\ bc'[t].ctx = bc[t].ctx
                  /\ last'.to \in Owed(t)
                  /\ last'.msg = bc[t].msg
             ELSE /\ pc'[t] \notin {"dead", "crashed_status", "crashed_left"}
                  /\ (bc[t].ctx \in {"grant", "release"} \/ (bc[t].ctx = "joined" /\ conn[t] = "open"))
                        => pc'[t] = "loop" ]_vars

\* ---- C27 ----------------------------------------------------------------
\* C27: a run of check_timeout clears the owner (and the start time) exactly
\* when there is an owner whose grant is older than max_transmit_time; an
\* owner within its time is left with its start time; with the floor idle
\* the run changes nothing, returns none and broadcasts nothing; and every
\* step that makes a client the owner sets the start time to the time of
\* that step, so an owner is never measured on an earlier owner's clock.
C27_TimeoutOnlyWhenDue ==
    [][ /\ (last'.task = CHK /\ last'.ev = "check") =>
              IF current_speaker # None /\ now - speaker_start_time > PTT_TIMEOUT
              THEN current_speaker' = None /\ speaker_start_time' = None
              ELSE /\ current_speaker' = current_speaker
                   /\ speaker_start_time' = speaker_start_time
                   /\ last'.msg = NoMsg
                   /\ pc'[CHK] = "sleep"
        /\ (current_speaker' # None /\ current_speaker' # current_speaker) =>
              speaker_start_time' = now' ]_vars

\* check_timeout has just revoked an owner who was granted the floor after
\* an earlier owner had been revoked
C27_Witness ==
    /\ last.task = CHK
    /\ last.ev = "check"
    /\ current_speaker = None
    /\ Cardinality(revoked) = 2

\* ---- C28 ----------------------------------------------------------------
\* C28: a session is in the registry only once its config and its initial
\* ptt_status have been emitted: no registered session is still at its
\* handshake or has failed in it, so none is written a broadcast or a
\* relayed frame, or named in a client_list, before then.
C28_MemberAfterHandshake ==
    /\ \A c \in clients : pc[c] \notin {"hs_status", "crashed_hs"}
    /\ \A c \in Clients :
          (last.to = c /\ pc[c] \in {"hs_status", "crashed_hs"}) => last.task = c

\* ---- C29 ----------------------------------------------------------------
\* C29: when a step removes a session from the registry, the session's peer
\* connection was closed and it had no running media sender before the step.
C29_ClosedBeforeRemoval ==
    [][ \A c \in Clients :
          (c \in clients /\ c \notin clients') =>
              /\ peer[c].state = "closed"
              /\ peer[c].senders = 0 ]_vars

\* ---- C30 ----------------------------------------------------------------
\* C30: a session has at most one media sender (MicrophoneAudioTrack added to
\* its peer connection) however many offers it has sent, so that the senders
\* that run are never more than the sessions that are connected.
C30_OneSenderPerSession ==
    /\ \A c \in Clients : peer[c].senders <= 1
    /\ Cardinality({c \in Clients : peer[c].senders > 0})
          <= Cardinality({c \in Clients : pc[c] \notin {"new", "closed"}})

\* ---- C31 ----------------------------------------------------------------
\* C31: the frame queue never holds more than 100 frames; a frame put while
\* it is full is discarded and leaves the queue as it was, any other frame
\* is appended; the audio callback does not touch the queue; recv returns
\* the head of the queue, so frames are returned in the order of arrival.
C31_BoundedQueue ==
    [][ /\ Len(trk'.queue) <= QUEUE_MAXSIZE
        /\ trk'.ev = "put" =>
              trk'.queue = IF Len(trk.queue) = QUEUE_MAXSIZE THEN trk.queue
                           ELSE Append(trk.queue, Head(trk.pending))
        /\ trk'.ev = "callback" => trk'.queue = trk.queue
        /\ trk'.ev = "recv" =>
              /\ trk'.out.id = Head(trk.queue)
              /\ trk'.queue = Tail(trk.queue)
              /\ trk'.out.id > trk.out.id ]_vars

\* the queue is full again with a frame that arrived after one was discarded
C31_Witness ==
    /\ trk.ev = "put"
    /\ trk.drops > 0
    /\ Len(trk.queue) = QUEUE_MAXSIZE
    /\ trk.queue[QUEUE_MAXSIZE] > QUEUE_MAXSIZE + 1
    /\ trk.n > trk.queue[QUEUE_MAXSIZE]

\* ---- C32 ----------------------------------------------------------------
\* C32: the n-th frame recv returns (n counted from 0) carries
\* pts = n x samples_per_frame, whatever was discarded before it, and each
\* returned pts is greater than the one before.
C32_ContiguousPts ==
    [][ trk'.ev = "recv" =>
           /\ trk'.out.pts = trk.returned * SAMPLES_PER_FRAME
           /\ trk.returned > 0 => trk'.out.pts > trk.out.pts ]_vars

\* recv has returned a frame that was captured after a discarded one
C32_Witness ==
    /\ trk.ev = "recv"
    /\ trk.drops > 0
    /\ trk.out.id > QUEUE_MAXSIZE + 1

\* ---- C33 ----------------------------------------------------------------
\* C33: the floor owner is none or an id under which the registry holds a
\* session: once the entry of an id has been removed, the id does not own
\* the floor and is not granted it.
C33_OwnerRegistered ==
    uid.spk # None => uid.reg[uid.spk] # None

\* ---- C34 ----------------------------------------------------------------
\* C34: a registered session whose control channel has closed, or whose
\* handler has failed, is eventually removed from the registry.
C34_EventuallyRemoved ==
    \A c \in Clients :
        (c \in clients /\ (conn[c] = "closed" \/ HandlerOver(c))) ~> (c \notin clients)

\* ---- C35 ----------------------------------------------------------------
\* C35: when a task that has just written a ptt_status to a registered,
\* connected client takes its next step and leaves no broadcast in progress
\* or pending and no handshake unfinished, that ptt_status, the most recent
\* one the client was sent, reports the arbiter's owner as it is then.
C35_StatusCurrent ==
    [][ \A t \in Tasks :
          ( /\ last.task = t
            /\ last.msg.type = "ptt_status"
            /\ last'.task = t
            /\ last'.msg = NoMsg
            /\ last.to \in clients'
            /\ conn'[last.to] = "open"
            /\ \A u \in Tasks : pc'[u] \notin {"bcast", "granted", "hs_status"} )
          => last.msg.speaker = current_speaker' ]_vars

\* ---- C36 ----------------------------------------------------------------
\* C36: of two clients at most one has been sent a client_list that names
\* the other, so that only one of the two initiates the P2P offer.
C36_OneInitiator ==
    \A x, y \in Clients :
        x # y => ~(y \in peer[x].listed /\ x \in peer[y].listed)

\* ---- C37 ----------------------------------------------------------------
\* C37: every p2p_offer the server has relayed to the transceiver is
\* eventually answered with a p2p_answer to its sender, whichever loop of
\* the transceiver is reading the channel when it arrives.
C37_OfferAnswered ==
    \A x \in VtPeers : (x \in vt.relayed) ~> (x \in vt.answered)

\* ---- C38 ----------------------------------------------------------------
\* C38: a candidate of X is given to addIceCandidate only on a connection
\* whose remote description is set; a candidate that arrives before is
\* appended to the buffer and nothing is added; the step that applies X's
\* offer or answer adds the buffered candidates once each, in the order of
\* arrival, after those already added, and leaves the buffer empty.
C38_CandidatesAfterDescription ==
    [][ LET c == GetOrCreate(ice.conn)
            d == ice'.conn
        IN  /\ d.exists =>
                  /\ ~d.remote_description_set => d.added = <<>>
                  /\ d.remote_description_set => d.pending_candidates = <<>>
                  /\ \A i, j \in 1 .. Len(d.added) : i < j => d.added[i] < d.added[j]
            /\ ice'.ev = "candidate" =>
                  IF c.remote_description_set
                  THEN d.added = Append(c.added, ice'.n) /\ d.pending_candidates = <<>>
                  ELSE d.pending_candidates = Append(c.pending_candidates, ice'.n) /\ d.added = <<>>
            /\ (ice'.ev \in {"offer", "answer"} /\ d.exists) =>
                  /\ d.remote_description_set
                  /\ d.added = c.added \o c.pending_candidates
                  /\ d.pending_candidates = <<>> ]_vars

\* two buffered candidates have been added by the step that applied the
\* peer's description
C38_Witness ==
    /\ ice.ev \in {"offer", "answer"}
    /\ ice.conn.exists
    /\ Len(ice.conn.added) >= 2

\* ---- C39 ----------------------------------------------------------------
\* C39: whoever asks, each P2P connection has its receive task cancelled
\* and its pc.close() invoked at most once, a callback of one connection
\* closes no other connection, and when a call of _close_p2p_connection
\* returns the peer has no entry in p2p_connections.
C39_ClosedOnce ==
    [][ /\ \A g \in P2PConns : cls'.cancels[g] <= 1 /\ cls'.closes[g] <= 1
        /\ \A r \in Askers :
              /\ (r[1] # 0 /\ cls'.got[r] # 0) => cls'.got[r] = r[1]
              /\ (cls.ph[r] # "done" /\ cls'.ph[r] = "done") => cls'.cur = 0 ]_vars

\* ---- C40 ----------------------------------------------------------------
\* C40: whenever PTT is active the recorder is recording, whatever the
\* interleaving of the audio callback with the timer's save_recording.
C40_ActiveIsRecording ==
    vox.is_active => vox.is_recording

====
